---- MODULE Spec2Model ----
(***************************************************************************)
(* Camera of the raymarching renderer (src/src/camera/camera.cpp).         *)
(*                                                                         *)
(* Number model.  The camera computes with IEEE floats (glm).  The model   *)
(* computes with exact real numbers of the form                            *)
(*        q1*sqrt(m1) + ... + qk*sqrt(mk)                                  *)
(* (qi rational, mi distinct square-free naturals), which is closed under  *)
(* every operation the camera performs on the inputs drawn below: + - *,   *)
(* division by a one-term number, sqrt of a rational.  Rounding is not     *)
(* modelled; division by zero gives NaN, and NaN propagates as in IEEE.    *)
(* Angles are exact only at multiples of 90 degrees (sin, cos) and at 30,  *)
(* 45 and 60 degrees (tan), so the inputs are drawn from those.            *)
(***************************************************************************)
EXTENDS Integers, Sequences, FiniteSets, TLC

\* ------------------------------------------------------------ bounds
\* Largest |x| + |y| + |z| of the camera position, in quarters of a world
\* unit (the impulses move the camera by 3/4 or 1).
MaxPos == 4
\* Largest |coordinate| of the look vector (pitch about an axis that is not
\* of unit length stretches look).
MaxLook == 2
\* Mouse deltas are drawn so that the rotation is -MaxQuarterTurns..MaxQuarterTurns
\* quarter turns.
MaxQuarterTurns == 1

\* ------------------------------------------------------------ evaluation
\* The one element of a singleton set.  An operator below that uses an
\* argument more than once first binds it, Val({ ... x ... : x \in {arg} }),
\* so that the argument is evaluated once, as a C++ call evaluates it.
Val(S) == CHOOSE r \in S : TRUE

\* ------------------------------------------------------------ rationals
Abs(n) == IF n < 0 THEN -n ELSE n

RECURSIVE GCD(_, _)
GCD(a, b) ==
    Val({ IF y = 0 THEN x ELSE GCD(y, x % y) : x \in {a}, y \in {b} })

\* The rational n/d (d # 0) in lowest terms with a positive denominator.
RNorm(n, d) ==
    Val({ <<(s * n) \div g, (s * d) \div g>> :
            g \in {GCD(Abs(n), Abs(d))}, s \in {IF d < 0 THEN -1 ELSE 1} })

\* ------------------------------------------------------------ float
\* A float: the terms <<m, n, d>> of a sum of (n/d)*sqrt(m), n # 0, n/d in
\* lowest terms, m square-free, in increasing order of m.
Zero == <<>>
\* NaN is the one term with the (otherwise unused) radicand 0.
NaN == <<<<0, 0, 1>>>>
IsNaN(a) == a # <<>> /\ a[1][1] = 0

\* The float (n/d) * sqrt(m) for a square-free m.
Term(m, n, d) ==
    Val({ IF q[1] = 0 THEN Zero ELSE <<<<m, q[1], q[2]>>>> : q \in {RNorm(n, d)} })
\* The float n/d.
Q(n, d) == Term(1, n, d)
One == <<<<1, 1, 1>>>>

NNeg(a) == Val({ [i \in DOMAIN x |-> <<x[i][1], -x[i][2], x[i][3]>>] : x \in {a} })

\* The merge of two sums, term by term in increasing order of the radicand.
RECURSIVE Merge(_, _, _, _)
Merge(a, b, i, j) ==
    IF i > Len(a) THEN SubSeq(b, j, Len(b))
    ELSE IF j > Len(b) THEN SubSeq(a, i, Len(a))
    ELSE IF a[i][1] < b[j][1] THEN <<a[i]>> \o Merge(a, b, i + 1, j)
    ELSE IF b[j][1] < a[i][1] THEN <<b[j]>> \o Merge(a, b, i, j + 1)
    ELSE Term(a[i][1], a[i][2] * b[j][3] + b[j][2] * a[i][3], a[i][3] * b[j][3])
            \o Merge(a, b, i + 1, j + 1)

NAdd(a, b) ==
    Val({ IF x = <<>> THEN (IF IsNaN(y) THEN NaN ELSE y)
          ELSE IF y = <<>> THEN (IF IsNaN(x) THEN NaN ELSE x)
          ELSE IF x[1][1] = 0 \/ y[1][1] = 0 THEN NaN
          ELSE Merge(x, y, 1, 1) : x \in {a}, y \in {b} })

NSub(a, b) == NAdd(a, NNeg(b))

\* (n1/d1)*sqrt(m1) * (n2/d2)*sqrt(m2) = (n1*n2*g/(d1*d2)) * sqrt((m1/g)*(m2/g)),
\* g = gcd(m1, m2): m1 and m2 are square-free, so the new radicand is too.
MulTerm(s, t) ==
    Val({ Term((s[1] \div g) * (t[1] \div g), s[2] * t[2] * g, s[3] * t[3]) :
            g \in {GCD(s[1], t[1])} })

\* The sum of the products of the terms i.. of a with the terms of b.
RECURSIVE SumTerms(_, _, _, _)
SumTerms(a, b, i, j) ==
    IF i > Len(a) THEN Zero
    ELSE IF j > Len(b) THEN SumTerms(a, b, i + 1, 1)
    ELSE NAdd(MulTerm(a[i], b[j]), SumTerms(a, b, i, j + 1))

NMul(a, b) ==
    Val({ IF x = <<>> THEN (IF IsNaN(y) THEN NaN ELSE Zero)
          ELSE IF y = <<>> THEN (IF IsNaN(x) THEN NaN ELSE Zero)
          ELSE IF x[1][1] = 0 \/ y[1][1] = 0 THEN NaN
          ELSE IF Len(x) = 1 /\ Len(y) = 1 THEN MulTerm(x[1], y[1])
          ELSE SumTerms(x, y, 1, 1) : x \in {a}, y \in {b} })

\* 1/a.  1/0 is inf in IEEE; the camera only ever multiplies it by the
\* components of the zero vector (0 * inf = NaN), so it is NaN here.
\* A sum of several radicals has no reciprocal of this form: x[0] is then
\* no term and the evaluation fails on purpose (no silent wrong value).
NInv(a) ==
    Val({ IF x = <<>> \/ IsNaN(x) THEN NaN
          ELSE Val({ Term(t[1], t[3], t[2] * t[1]) :
                       t \in {x[IF Len(x) = 1 THEN 1 ELSE 0]} }) : x \in {a} })

NDiv(a, b) == NMul(a, NInv(b))

\* n = k*k*m with m square-free: <<k, m>>, by trial division from f.
RECURSIVE SquarePart(_, _, _)
SquarePart(n, f, k) ==
    Val({ IF y * y > x THEN <<z, x>>
          ELSE IF x % (y * y) = 0 THEN SquarePart(x \div (y * y), y, z * y)
          ELSE SquarePart(x, y + 1, z) : x \in {n}, y \in {f}, z \in {k} })

\* sqrt of a rational p/q >= 0: sqrt(p*q)/q.  sqrt of a negative number is
\* NaN; the camera takes sqrt of sums of squares of rationals only (a sum
\* with a radical fails on purpose, as in NInv).
NSqrt(a) ==
    Val({ IF x = <<>> THEN Zero
          ELSE IF IsNaN(x) THEN NaN
          ELSE Val({ IF t[2] < 0 THEN NaN
                     ELSE Val({ Term(s[2], s[1], t[3]) :
                                  s \in {SquarePart(t[2] * t[3], 2, 1)} }) :
                       t \in {x[IF Len(x) = 1 /\ x[1][1] = 1 THEN 1 ELSE 0]} }) :
            x \in {a} })

\* a <= b for two rationals.
NLeq(a, b) ==
    \E d \in {NSub(b, a)} : d = <<>> \/ (Len(d) = 1 /\ d[1][1] = 1 /\ d[1][2] > 0)

\* ------------------------------------------------------------ glm
\* glm::vec3 / glm::vec4: tuples of floats (1-based here, 0-based in glm).
NVec3(x, y, z) == <<Q(x, 1), Q(y, 1), Q(z, 1)>>

V3Add(a, b) ==
    Val({ <<NAdd(x[1], y[1]), NAdd(x[2], y[2]), NAdd(x[3], y[3])>> :
            x \in {a}, y \in {b} })
V3Neg(a) == Val({ <<NNeg(x[1]), NNeg(x[2]), NNeg(x[3])>> : x \in {a} })
V3Sub(a, b) == V3Add(a, V3Neg(b))
V3Scale(s, a) ==
    Val({ <<NMul(t, x[1]), NMul(t, x[2]), NMul(t, x[3])>> : t \in {s}, x \in {a} })
V4Add(a, b) ==
    Val({ <<NAdd(x[1], y[1]), NAdd(x[2], y[2]), NAdd(x[3], y[3]), NAdd(x[4], y[4])>> :
            x \in {a}, y \in {b} })
V4Scale(s, a) ==
    Val({ <<NMul(t, x[1]), NMul(t, x[2]), NMul(t, x[3]), NMul(t, x[4])>> :
            t \in {s}, x \in {a} })

\* glm::dot
Dot3(a, b) ==
    Val({ NAdd(NAdd(NMul(x[1], y[1]), NMul(x[2], y[2])), NMul(x[3], y[3])) :
            x \in {a}, y \in {b} })

\* glm::cross(x, y)
Cross3(a, b) ==
    Val({ <<NSub(NMul(x[2], y[3]), NMul(y[2], x[3])),
            NSub(NMul(x[3], y[1]), NMul(y[3], x[1])),
            NSub(NMul(x[1], y[2]), NMul(y[1], x[2]))>> : x \in {a}, y \in {b} })

\* glm::normalize(v) = v * inversesqrt(dot(v, v))
Normalize3(a) == Val({ V3Scale(NInv(NSqrt(Dot3(v, v))), v) : v \in {a} })

\* glm::mat3 / glm::mat4 are column-major: m[c] is column c, and a
\* constructor given scalars fills column after column.
Mat3(a1, a2, a3, a4, a5, a6, a7, a8, a9) ==
    <<<<a1, a2, a3>>, <<a4, a5, a6>>, <<a7, a8, a9>>>>

\* glm: mat3 * vec3
Mat3Vec(a, b) ==
    Val({ V3Add(V3Add(V3Scale(v[1], m[1]), V3Scale(v[2], m[2])), V3Scale(v[3], m[3])) :
            m \in {a}, v \in {b} })
\* glm: mat3 * mat3, mat3 + mat3, float * mat3
Mat3Mul(a, b) ==
    Val({ <<Mat3Vec(x, y[1]), Mat3Vec(x, y[2]), Mat3Vec(x, y[3])>> :
            x \in {a}, y \in {b} })
Mat3Add(a, b) ==
    Val({ <<V3Add(x[1], y[1]), V3Add(x[2], y[2]), V3Add(x[3], y[3])>> :
            x \in {a}, y \in {b} })
Mat3Scale(s, a) ==
    Val({ <<V3Scale(t, x[1]), V3Scale(t, x[2]), V3Scale(t, x[3])>> :
            t \in {s}, x \in {a} })

\* glm: mat4 * vec4
Mat4Vec(a, b) ==
    Val({ V4Add(V4Add(V4Scale(v[1], m[1]), V4Scale(v[2], m[2])),
                V4Add(V4Scale(v[3], m[3]), V4Scale(v[4], m[4]))) :
            m \in {a}, v \in {b} })
\* glm: mat4 * mat4
Mat4Mul(a, b) ==
    Val({ <<Mat4Vec(x, y[1]), Mat4Vec(x, y[2]), Mat4Vec(x, y[3]), Mat4Vec(x, y[4])>> :
            x \in {a}, y \in {b} })

Identity4 ==
    <<<<One, Zero, Zero, Zero>>, <<Zero, One, Zero, Zero>>,
      <<Zero, Zero, One, Zero>>, <<Zero, Zero, Zero, One>>>>

\* The three indices of 1..4 other than i, in order.
Others(i) ==
    IF i = 1 THEN <<2, 3, 4>> ELSE IF i = 2 THEN <<1, 3, 4>>
    ELSE IF i = 3 THEN <<1, 2, 4>> ELSE <<1, 2, 3>>

\* a*d - b*c
Det2(a, b, c, d) == NSub(NMul(a, d), NMul(b, c))

\* The determinant of the 3x3 submatrix of m on rows R and columns C
\* (m, R and C are values here).
Det3(m, R, C) ==
    NAdd(NSub(NMul(m[C[1]][R[1]],
                   Det2(m[C[2]][R[2]], m[C[3]][R[2]], m[C[2]][R[3]], m[C[3]][R[3]])),
              NMul(m[C[2]][R[1]],
                   Det2(m[C[1]][R[2]], m[C[3]][R[2]], m[C[1]][R[3]], m[C[3]][R[3]]))),
         NMul(m[C[3]][R[1]],
              Det2(m[C[1]][R[2]], m[C[2]][R[2]], m[C[1]][R[3]], m[C[2]][R[3]])))

Cofactor(m, r, c) ==
    Val({ IF (r + c) % 2 = 0 THEN minor ELSE NNeg(minor) :
            minor \in {Val({ Det3(m, R, C) : R \in {Others(r)}, C \in {Others(c)} })} })

\* glm::inverse(mat4): the transposed cofactor matrix times 1/determinant,
\* the determinant expanded along the first row.
Inverse4(a) ==
    Val({ Val({ Val({ [c \in 1..4 |-> [r \in 1..4 |-> NMul(cof[c][r], OneOverDeterminant)]] :
                        OneOverDeterminant \in
                          {NInv(NAdd(NAdd(NMul(m[1][1], cof[1][1]), NMul(m[2][1], cof[1][2])),
                                     NAdd(NMul(m[3][1], cof[1][3]), NMul(m[4][1], cof[1][4]))))} }) :
                  cof \in {[r \in 1..4 |-> [c \in 1..4 |-> Cofactor(m, r, c)]]} }) :
            m \in {a} })

\* glm::radians; angles are kept in units of pi (theta = 1/2 is pi/2).
Radians(deg) == NDiv(deg, Q(180, 1))

\* theta (units of pi) is a whole number of quarter turns, and how many.
IsQuarterTurn(theta) ==
    \/ theta = <<>>
    \/ Len(theta) = 1 /\ theta[1][1] = 1 /\ (2 * theta[1][2]) % theta[1][3] = 0
QuarterTurns(theta) ==
    IF theta = <<>> THEN 0 ELSE (2 * theta[1][2]) \div theta[1][3]

\* sin, cos: exact at the multiples of pi/2.
Sin(theta) ==
    Val({ IF k = 1 THEN One ELSE IF k = 3 THEN NNeg(One) ELSE Zero :
            k \in {QuarterTurns(theta) % 4} })
Cos(theta) ==
    Val({ IF k = 0 THEN One ELSE IF k = 2 THEN NNeg(One) ELSE Zero :
            k \in {QuarterTurns(theta) % 4} })

\* glm::tan: exact at pi/6, pi/4 and pi/3.
Tan(theta) ==
    Val({ IF t = Q(1, 4) THEN One
          ELSE IF t = Q(1, 3) THEN Term(3, 1, 1)
          ELSE IF t = Q(1, 6) THEN Term(3, 1, 3)
          ELSE NaN : t \in {theta} })

\* ------------------------------------------------------------ inputs
\* The scenes loaded: SceneCameraData (look, pos, up, heightAngle in units
\* of pi) and the Settings in force (screenWidth, screenHeight, nearPlane,
\* farPlane).
Scenes ==
    { [cd |-> [look |-> NVec3(0, 0, -1), pos |-> NVec3(0, 0, 0),
               up |-> NVec3(0, 1, 0), heightAngle |-> Q(1, 2)],
       s |-> [screenWidth |-> 2, screenHeight |-> 2,
              nearPlane |-> Q(1, 10), farPlane |-> Q(100, 1)]],
      [cd |-> [look |-> NVec3(1, 0, -1), pos |-> NVec3(0, 0, 0),
               up |-> NVec3(0, 1, 0), heightAngle |-> Q(1, 3)],
       s |-> [screenWidth |-> 3, screenHeight |-> 2,
              nearPlane |-> One, farPlane |-> Q(10, 1)]],
      [cd |-> [look |-> NVec3(0, 0, -1), pos |-> <<Q(1, 3), Q(1, 3), Q(1, 3)>>,
               up |-> NVec3(1, 0, 0), heightAngle |-> Q(2, 3)],
       s |-> [screenWidth |-> 2, screenHeight |-> 3,
              nearPlane |-> Q(1, 2), farPlane |-> Q(4, 1)]] }

\* The matrix a caller hands to applyRotation: a quarter turn about the
\* world Y axis (columns (0,0,-1), (0,1,0), (1,0,0)).
Rotations ==
    { Mat3(Zero, Zero, NNeg(One), Zero, One, Zero, One, Zero, Zero) }

NAbs(a) == Val({ IF NLeq(Zero, x) THEN x ELSE NNeg(x) : x \in {a} })

\* |x| + |y| + |z| <= b/4, for a vector of rationals.
InReach(a, b) ==
    \E v \in {a} : NLeq(NAdd(NAdd(NAbs(v[1]), NAbs(v[2])), NAbs(v[3])), Q(b, 4))

\* Every |coordinate| of v is a rational of size at most b.
InBox(a, b) ==
    \E v \in {a} : \A i \in 1..3 : NLeq(Q(-b, 1), v[i]) /\ NLeq(v[i], Q(b, 1))

\* ------------------------------------------------------------ state
VARIABLES
    m_width, m_height, m_aspectRatio,      \* screen
    m_near, m_far,                         \* frustum
    m_heightAngle, m_viewAngleHeight, m_viewAngleWidth,
    m_look, m_pos, m_up,                   \* virtual camera
    m_view, m_invView,                     \* cached matrices
    op, arg                                \* the last call and its arguments

screen == <<m_width, m_height, m_aspectRatio>>
frustum == <<m_near, m_far, m_heightAngle, m_viewAngleHeight, m_viewAngleWidth>>
camera == <<screen, frustum, m_look, m_pos, m_up, m_view, m_invView>>
vars == <<camera, op, arg>>

\* ------------------------------------------------------------ Camera
\* translationMat of setViewMatrix.
TranslationMat(pos) ==
    Val({ <<<<One, Zero, Zero, Zero>>,
            <<Zero, One, Zero, Zero>>,
            <<Zero, Zero, One, Zero>>,
            <<NNeg(p[1]), NNeg(p[2]), NNeg(p[3]), One>>>> : p \in {pos} })

\* rotationMat of setViewMatrix: its columns rc1..rc4.
RotationMat(u, v, w) ==
    <<<<u[1], v[1], w[1], Zero>>,
      <<u[2], v[2], w[2], Zero>>,
      <<u[3], v[3], w[3], Zero>>,
      <<Zero, Zero, Zero, One>>>>

\* The view matrix setViewMatrix computes from pos, look and up:
\*   w = -normalize(look), v = normalize(up - dot(up, w) * w), u = cross(v, w),
\*   m_view = rotationMat * translationMat.
ViewMatrix(pos, look, up) ==
    Val({ Val({ Val({ Mat4Mul(RotationMat(u, v, w), TranslationMat(pos)) :
                        u \in {Cross3(v, w)} }) :
                  v \in {Normalize3(V3Sub(up, V3Scale(Dot3(up, w), w)))} }) :
            w \in {V3Neg(Normalize3(look))} })

\* A faulty setViewMatrix: the cached matrices are kept as they were.
setViewMatrixStale(pos, look, up) ==
    UNCHANGED <<m_view, m_invView>>

\* setViewMatrix, called with the values m_pos, m_look and m_up have by then.
setViewMatrix(pos, look, up) ==
    \E view \in {ViewMatrix(pos, look, up)} :
        /\ m_view' = view
        /\ m_invView' = Inverse4(view)

\* A faulty normalizePixel: the row is not flipped.
normalizePixelNoFlip(i, j) ==
    <<NSub(NDiv(NAdd(Q(j, 1), Q(1, 2)), Q(m_width, 1)), Q(1, 2)),
      NSub(NDiv(NAdd(Q(i, 1), Q(1, 2)), Q(m_height, 1)), Q(1, 2))>>

normalizePixel(i, j) ==
    LET x == NSub(NDiv(NAdd(Q(j, 1), Q(1, 2)), Q(m_width, 1)), Q(1, 2))
        y == NSub(NDiv(NAdd(Q(m_height - 1 - i, 1), Q(1, 2)), Q(m_height, 1)),
                  Q(1, 2))
    IN  <<x, y>>

\* A faulty getRayDir: the camera-space vector is taken as a point (w = 1).
getRayDirPoint(i, j) ==
    Val({ Mat4Vec(m_invView, <<NMul(m_viewAngleWidth, normCoords[1]),
                               NMul(m_viewAngleHeight, normCoords[2]),
                               NNeg(m_far), One>>) :
            normCoords \in {normalizePixel(i, j)} })

getRayDir(i, j) ==
    Val({ Val({ Mat4Vec(m_invView, <<uvk[1], uvk[2], uvk[3], Zero>>) :
                  uvk \in {<<NMul(m_viewAngleWidth, normCoords[1]),
                             NMul(m_viewAngleHeight, normCoords[2]),
                             NNeg(m_far)>>} }) :
            normCoords \in {normalizePixel(i, j)} })

getViewMatrix == m_view
getCameraPosition == <<m_pos[1], m_pos[2], m_pos[3], One>>
getNearPlane == m_near
getFarPlane == m_far

onWPressed == V3Scale(Q(3, 4), m_look)
onSPressed == V3Scale(Q(-3, 4), m_look)
onAPressed == V3Scale(Q(-3, 4), Cross3(m_look, m_up))
onDPressed == V3Scale(Q(3, 4), Cross3(m_look, m_up))
onSpacePressed == <<Zero, One, Zero>>
onControlPressed == <<Zero, NNeg(One), Zero>>

\* A faulty rotateX matrix: the nine scalars taken as rows.
rotateXMatRowMajor(deltaX) ==
    Val({ Mat3(Cos(theta), Zero, Sin(theta),
               Zero, One, Zero,
               NNeg(Sin(theta)), Zero, Cos(theta)) :
            theta \in {Radians(NDiv(NMul(NMul(Q(3, 10), Q(360, 1)), deltaX),
                                    Q(m_width, 1)))} })

\* A faulty rotateX matrix: the rotation is about the world X axis.
rotateXMatAboutX(deltaX) ==
    Val({ Mat3(One, Zero, Zero,
               Zero, Cos(theta), Sin(theta),
               Zero, NNeg(Sin(theta)), Cos(theta)) :
            theta \in {Radians(NDiv(NMul(NMul(Q(3, 10), Q(360, 1)), deltaX),
                                    Q(m_width, 1)))} })

\* The rotation matrix rotateX builds for a mouse move of deltaX.
rotateXMat(deltaX) ==
    Val({ Mat3(Cos(theta), Zero, NNeg(Sin(theta)),
               Zero, One, Zero,
               Sin(theta), Zero, Cos(theta)) :
            theta \in {Radians(NDiv(NMul(NMul(Q(3, 10), Q(360, 1)), deltaX),
                                    Q(m_width, 1)))} })

\* The rotation matrix rotateY builds for a mouse move of deltaY.
rotateYMat(deltaY) ==
    Val({ Val({ Mat3Add(Mat3Add(Mat3(One, Zero, Zero, Zero, One, Zero, Zero, Zero, One),
                                Mat3Scale(Sin(theta), K)),
                        Mat3Scale(NSub(One, Cos(theta)), Mat3Mul(K, K))) :
                  K \in {Mat3(Zero, NNeg(axis[3]), axis[2],
                              axis[3], Zero, NNeg(axis[1]),
                              NNeg(axis[2]), axis[1], Zero)} }) :
            theta \in {Radians(NDiv(NMul(NMul(Q(3, 10), Q(360, 1)), deltaY),
                                    Q(m_height, 1)))},
            axis \in {Cross3(m_look, m_up)} })

\* The mouse moves (in pixels, over a screen extent of n pixels) that turn
\* the camera by whole quarter turns: 0.3 * 360 * delta / n = 90 * k.
Deltas(n) ==
    { NMul(Q(5 * k, 6), Q(n, 1)) : k \in (-MaxQuarterTurns)..MaxQuarterTurns }

\* ------------------------------------------------------------ actions
\* The state initializeCamera(cd, s) leaves.
Init ==
    \E scene \in Scenes :
      LET cd == scene.cd
          s == scene.s
      IN
        /\ m_width = s.screenWidth
        /\ m_height = s.screenHeight
        /\ m_aspectRatio = NDiv(Q(m_width, 1), Q(m_height, 1))
        /\ m_near = s.nearPlane
        /\ m_far = s.farPlane
        /\ m_heightAngle = cd.heightAngle
        /\ m_viewAngleHeight =
              NMul(NMul(Q(2, 1), m_far), Tan(NDiv(m_heightAngle, Q(2, 1))))
        /\ m_viewAngleWidth = NMul(m_aspectRatio, m_viewAngleHeight)
        /\ m_look = cd.look
        /\ m_pos = cd.pos
        /\ m_up = cd.up
        /\ m_view = ViewMatrix(cd.pos, cd.look, cd.up)
        /\ m_invView = Inverse4(m_view)
        /\ op = "initializeCamera"
        /\ arg = <<>>

\* A faulty applyTranslation: m_pos -= disp.
applyTranslationBackwards(disp) ==
    \E pos \in {V3Sub(m_pos, disp)} :
        /\ InReach(pos, MaxPos)
        /\ m_pos' = pos
        /\ UNCHANGED <<screen, frustum, m_look, m_up>>
        /\ setViewMatrix(pos, m_look, m_up)
        /\ op' = "applyTranslation"
        /\ arg' = disp

applyTranslation(disp) ==
    \E pos \in {V3Add(m_pos, disp)} :
        /\ InReach(pos, MaxPos)
        /\ m_pos' = pos
        /\ UNCHANGED <<screen, frustum, m_look, m_up>>
        /\ setViewMatrix(pos, m_look, m_up)
        /\ op' = "applyTranslation"
        /\ arg' = disp

\* A faulty applyRotation: m_up is rotated along with m_look.
applyRotationWithUp(rotationMat) ==
    \E look \in {Mat3Vec(rotationMat, m_look)}, up \in {Mat3Vec(rotationMat, m_up)} :
        /\ InBox(look, MaxLook)
        /\ m_look' = look
        /\ m_up' = up
        /\ UNCHANGED <<screen, frustum, m_pos>>
        /\ setViewMatrix(m_pos, look, up)

\* The body of applyRotation.
applyRotation(rotationMat) ==
    \E look \in {Mat3Vec(rotationMat, m_look)} :
        /\ InBox(look, MaxLook)
        /\ m_look' = look
        /\ UNCHANGED <<screen, frustum, m_pos, m_up>>
        /\ setViewMatrix(m_pos, look, m_up)

\* A call of applyRotation from outside the class.
CallApplyRotation(rotationMat) ==
    /\ applyRotation(rotationMat)
    /\ op' = "applyRotation"
    /\ arg' = rotationMat

rotateX(deltaX) ==
    /\ \E rotationMat \in {rotateXMat(deltaX)} : applyRotation(rotationMat)
    /\ op' = "rotateX"
    /\ arg' = deltaX

rotateY(deltaY) ==
    /\ \E rotationMat \in {rotateYMat(deltaY)} : applyRotation(rotationMat)
    /\ op' = "rotateY"
    /\ arg' = deltaY

\* A faulty const member function: it turns the camera around.
QueryTurning(name, a) ==
    /\ op' = name
    /\ arg' = a
    /\ m_look' = V3Neg(m_look)
    /\ UNCHANGED <<screen, frustum, m_pos, m_up, m_view, m_invView>>

\* A call of a const member function: the camera is left as it is (the
\* value returned is the operator of the same name above).
Query(name, a) ==
    /\ op' = name
    /\ arg' = a
    /\ UNCHANGED camera

CallGetViewMatrix == Query("getViewMatrix", <<>>)
CallGetCameraPosition == Query("getCameraPosition", <<>>)
CallGetNearPlane == Query("getNearPlane", <<>>)
CallGetFarPlane == Query("getFarPlane", <<>>)
CallGetRayDir(i, j) == Query("getRayDir", <<i, j>>)
CallOnWPressed == Query("onWPressed", <<>>)
CallOnSPressed == Query("onSPressed", <<>>)
CallOnAPressed == Query("onAPressed", <<>>)
CallOnDPressed == Query("onDPressed", <<>>)
CallOnSpacePressed == Query("onSpacePressed", <<>>)
CallOnControlPressed == Query("onControlPressed", <<>>)

\* The displacements the input handler passes: the six impulses.
Impulses ==
    { onWPressed, onSPressed, onAPressed, onDPressed,
      onSpacePressed, onControlPressed }

Next ==
    \/ \E disp \in Impulses : applyTranslation(disp)
    \/ \E rotationMat \in Rotations : CallApplyRotation(rotationMat)
    \/ \E deltaX \in Deltas(m_width) : rotateX(deltaX)
    \/ \E deltaY \in Deltas(m_height) : rotateY(deltaY)
    \/ CallGetViewMatrix
    \/ CallGetCameraPosition
    \/ CallGetNearPlane
    \/ CallGetFarPlane
    \/ \E i \in 0..(m_height - 1), j \in 0..(m_width - 1) : CallGetRayDir(i, j)
    \/ CallOnWPressed
    \/ CallOnSPressed
    \/ CallOnAPressed
    \/ CallOnDPressed
    \/ CallOnSpacePressed
    \/ CallOnControlPressed

Spec == Init /\ [][Next]_vars

\* ------------------------------------------------------------ properties
Origin3 == <<Zero, Zero, Zero>>
Identity3 == Mat3(One, Zero, Zero, Zero, One, Zero, Zero, Zero, One)

\* look is not the zero vector and look, up are not parallel: the
\* precondition under which setViewMatrix divides by no zero length.
WellDefined == m_look # Origin3 /\ Cross3(m_look, m_up) # Origin3

Pixels == (0..(m_height - 1)) \X (0..(m_width - 1))

QueryNames ==
    { "getViewMatrix", "getCameraPosition", "getNearPlane", "getFarPlane",
      "getRayDir", "onWPressed", "onSPressed", "onAPressed", "onDPressed",
      "onSpacePressed", "onControlPressed" }

\* v / |v|
Unit(v) == V3Scale(NInv(NSqrt(Dot3(v, v))), v)

\* Rotation(u, v, w) * Translation(-pos) written out entry by entry for the
\* camera basis of the current look and up: row r of the rotation is the
\* basis vector, the last column is minus its dot product with pos.
ExpectedView ==
    LET w == V3Neg(Unit(m_look))
        v == Unit(V3Sub(m_up, V3Scale(Dot3(m_up, w), w)))
        u == Cross3(v, w)
    IN  <<<<u[1], v[1], w[1], Zero>>,
          <<u[2], v[2], w[2], Zero>>,
          <<u[3], v[3], w[3], Zero>>,
          <<NNeg(Dot3(u, m_pos)), NNeg(Dot3(v, m_pos)), NNeg(Dot3(w, m_pos)), One>>>>

\* C1: in every reachable state whose look and up are non-zero and not
\* parallel, the cached m_view is Rotation(u,v,w) * Translation(-m_pos) for
\* the current m_pos, m_look and m_up, and m_invView * m_view is the identity.
C1_ViewMatricesCurrent ==
    WellDefined =>
        /\ m_view = ExpectedView
        /\ Mat4Mul(m_invView, m_view) = Identity4

\* C1 case: a rotation has just been applied to a camera that was moved
\* away from the origin, and the basis is well defined.
C1_Witness ==
    /\ op = "applyRotation"
    /\ WellDefined
    /\ m_pos # Origin3
    /\ m_view # Identity4

C3_AllImpulsesScaled ==
    /\ onWPressed = V3Scale(Q(3, 4), m_look)
    /\ onSPressed = V3Scale(Q(-3, 4), m_look)
    /\ onAPressed = V3Scale(Q(-3, 4), Cross3(m_look, m_up))
    /\ onDPressed = V3Scale(Q(3, 4), Cross3(m_look, m_up))
    /\ onSpacePressed = <<Zero, Q(3, 4), Zero>>
    /\ onControlPressed = <<Zero, Q(-3, 4), Zero>>

Times(R, v) ==
    [r \in 1..3 |->
        NAdd(NAdd(NMul(R[1][r], v[1]), NMul(R[2][r], v[2])), NMul(R[3][r], v[3]))]

\* C5: applyRotation(R) replaces m_look by R * m_look; it, rotateX and
\* rotateY leave m_up, m_pos, the viewport and the frustum as they were;
\* no step at all writes m_up.
C5_RotationFrame ==
    [][/\ op' = "applyRotation" => m_look' = Times(arg', m_look)
       /\ op' \in {"applyRotation", "rotateX", "rotateY"} =>
             UNCHANGED <<m_up, m_pos, screen, frustum>>
       /\ m_up' = m_up]_vars

\* C5 case: a pitch that is not the identity has just turned look.
C5_Witness ==
    /\ op = "rotateY"
    /\ arg # Zero
    /\ WellDefined
    /\ m_look # NVec3(1, 0, -1)
    /\ m_width = 3

\* C6: a call of a getter, of getRayDir or of an impulse query leaves every
\* field of the camera as it was.
C6_QueriesReadOnly ==
    [][op' \in QueryNames => UNCHANGED camera]_vars

\* C6 case: getRayDir has been called on a camera that was moved.
C6_Witness ==
    /\ op = "getRayDir"
    /\ arg = <<1, 1>>
    /\ m_pos # Origin3

C8_PitchRodrigues ==
    [][op' = "rotateY" =>
          LET theta == NDiv(NDiv(NMul(Q(108, 1), arg'), Q(m_height, 1)), Q(180, 1))
              a == Cross3(m_look, m_up)
          IN  m_look' =
                V3Add(V3Add(m_look, V3Scale(Sin(theta), Cross3(a, m_look))),
                      V3Scale(NSub(One, Cos(theta)), Cross3(a, Cross3(a, m_look))))]_vars

\* The closed form of normalizePixel: x = (2*col + 1 - width) / (2*width),
\* y = (2*(height - 1 - row) + 1 - height) / (2*height).
PixelX(col) == Q(2 * col + 1 - m_width, 2 * m_width)
PixelY(row) == Q(2 * (m_height - 1 - row) + 1 - m_height, 2 * m_height)
NLess(a, b) == a # b /\ NLeq(a, b)

\* C9: normalizePixel(row, col) = ((col + 0.5)/width - 0.5,
\* (height - 1 - row + 0.5)/height - 0.5), both within [-0.5, 0.5]; x grows
\* with col, y falls with row, and y(row) = -y(height - 1 - row).
C9_PixelNormalisation ==
    \A p \in Pixels :
        LET row == p[1]
            col == p[2]
            xy == normalizePixel(row, col)
        IN  /\ xy = <<PixelX(col), PixelY(row)>>
            /\ NLeq(Q(-1, 2), xy[1]) /\ NLeq(xy[1], Q(1, 2))
            /\ NLeq(Q(-1, 2), xy[2]) /\ NLeq(xy[2], Q(1, 2))
            /\ col + 1 < m_width => NLess(xy[1], normalizePixel(row, col + 1)[1])
            /\ row + 1 < m_height => NLess(normalizePixel(row + 1, col)[2], xy[2])
            /\ xy[2] = NNeg(normalizePixel(m_height - 1 - row, col)[2])

\* C9 case: getRayDir has normalised the bottom row of the three-row
\* viewport.
C9_Witness ==
    /\ op = "getRayDir"
    /\ m_height = 3
    /\ arg = <<2, 1>>

\* C10 (as claimed): a step of applyTranslation, rotateX or rotateY from a
\* state whose look is non-zero and not parallel to up ends in such a state.
C10_BasisPreserved ==
    [][(WellDefined /\ op' \in {"applyTranslation", "rotateX", "rotateY"}) =>
          WellDefined']_vars

\* C10 (amended): a step of applyTranslation, or of rotateX when up is along
\* the world Y axis, from a state whose look is non-zero and not parallel
\* to up ends in such a state.
C10_BasisPreservedByMoveAndYaw ==
    [][(/\ WellDefined
        /\ \/ op' = "applyTranslation"
           \/ op' = "rotateX" /\ m_up[1] = Zero /\ m_up[3] = Zero) =>
          WellDefined']_vars

\* C10 case: a quarter-turn yaw has turned a moved camera whose up is the
\* world Y axis, and the basis is well defined.
C10_Witness ==
    /\ op = "rotateX"
    /\ arg # Zero
    /\ m_up = NVec3(0, 1, 0)
    /\ m_pos # Origin3
    /\ WellDefined

====
